---- MODULE Spec2Model ----
(***************************************************************************)
(* A model of components/console/linenoise/linenoise.c: the line buffer    *)
(* and cursor of one editing session, the append buffer and the bytes it   *)
(* sends to the terminal, the process-wide history store, the completion   *)
(* sub-protocol and the start / feed / stop session API.                   *)
(*                                                                         *)
(* Strings are sequences of byte values (1-indexed); the caller's line     *)
(* buffer is a function from 0..bufsize-1 to byte values, so that stale    *)
(* bytes behind the terminator and accesses outside the array are visible. *)
(* An access outside the caller's array, or through a dangling history     *)
(* slot, is undefined behaviour: it sets the flag ub and the model follows *)
(* the run no further.                                                     *)
(***************************************************************************)
EXTENDS Integers, Sequences, FiniteSets, TLC

VARIABLES
    l,                \* struct linenoiseState of the session
    phase,            \* "NotStarted", "Active", "Done" (feed returned a result),
                      \* "Hints" (the blocking loop is about to call
                      \* handleHints), "Failed" (start returned -1)
    history,          \* the live entries history[0..history_len-1], oldest first
    history_len,      \* static int history_len
    history_max_len,  \* static int history_max_len
    maskmode,         \* static int maskmode
    completionCallback, \* NoCallback, or the candidate list the provider returns
    hintsCallback,    \* NoHints, or the name of the hint provider
    freeHintsCallback, \* NoFree, or the registered release callback
    rawmode,          \* static int rawmode
    orig_termios,     \* static struct termios orig_termios
    termios,          \* the configuration of the terminal device
    term,             \* the terminal on the output descriptor
    rv,               \* what the last API call returned
    errno,            \* errno as the last feed() left it
    op,               \* the editing operation the last feed() dispatched to
    snap,             \* line, length and cursor on entry to the last insert
                      \* or Ctrl-D
    gh                \* history bookkeeping of the run (see GhostInit)

vars == << l, phase, history, history_len, history_max_len, maskmode,
           completionCallback, hintsCallback, freeHintsCallback, rawmode,
           orig_termios, termios, term, rv, errno, op, snap, gh >>

devVars == << rawmode, orig_termios, termios >>

----------------------------------------------------------------------------
(* Bounds of the model *)

\* largest buffer capacity (buflen argument of linenoiseEditStart) of the
\* sessions of Spec
MaxCap == 2
\* largest buffer capacity of the sessions of SpecEdit
MaxCapEdit == 4
\* largest history_max_len the caller configures
MaxHistLen == 2
\* history API calls a run of SpecHist makes at most
MaxCalls == 4
\* history API calls before the session in Spec
MaxPreCalls == 1
\* capacities of the caller's array in SpecHints
MaxCapHints == 3
\* sessions of a run in SpecTerm and SpecRestart
MaxSessions == 2

\* at most this many strings of the provider wait for the release callback
MaxUnreleased == 3

----------------------------------------------------------------------------
(* Program constants: enum KEY_ACTION and the bytes the code writes *)

KEY_NULL == 0
CTRL_A == 1
CTRL_B == 2
CTRL_C == 3
CTRL_D == 4
CTRL_E == 5
CTRL_F == 6
CTRL_H == 8
TAB == 9
CTRL_K == 11
CTRL_L == 12
ENTER == 13
CTRL_N == 14
CTRL_P == 16
CTRL_R == 18
CTRL_T == 20
CTRL_U == 21
CTRL_W == 23
ESC == 27
BACKSPACE == 127

LINENOISE_DEFAULT_HISTORY_MAX_LEN == 100
LINENOISE_MAX_LINE == 512
LINENOISE_HISTORY_NEXT == 0
LINENOISE_HISTORY_PREV == 1

\* errno values the feed reports
EAGAIN == 11
ENOENT == 2
ENOTTY == 25
EINVAL == 22
\* size_t arithmetic wraps modulo SizeMod; 2^30 stands for the 2^32 of the
\* target, which is beyond the integers of the checker
SizeMod == 1073741824

\* '*', the character mask mode shows
MaskChar == 42
\* ' '
Space == 32

\* the bytes a user types as text: 'a', 'b'
Chars == {97, 98}

\* a read() that failed (returned -1)
ReadErr == -1

\* a NULL char pointer
NULL == << -1 >>

Min(a, b) == IF a < b THEN a ELSE b
Max(a, b) == IF a > b THEN a ELSE b

----------------------------------------------------------------------------
(* The caller's line buffer *)

\* strlen(l->buf): the index of the first NUL (bufsize when the array holds none
\* and strlen runs off its end)
strlen(s) ==
    IF \E i \in DOMAIN s.buf : s.buf[i] = 0
    THEN CHOOSE i \in DOMAIN s.buf :
             s.buf[i] = 0 /\ \A j \in DOMAIN s.buf : j < i => s.buf[j] # 0
    ELSE s.bufsize

\* the C string at l->buf, as strdup(l->buf) copies it
strdup(s) == [k \in 1..strlen(s) |-> s.buf[k - 1]]

\* the first l->len bytes of the buffer: the edited line
Line(s) == [k \in 1..Min(s.len, s.bufsize) |-> s.buf[k - 1]]

\* l->buf[i] = v
poke(s, i, v) ==
    IF i \in DOMAIN s.buf THEN [s EXCEPT !.buf[i] = v]
    ELSE [s EXCEPT !.ub = TRUE]

\* memmove(l->buf + dst, l->buf + src, n)
memmove(s, dst, src, n) ==
    IF n = 0 THEN s
    ELSE IF n < 0 \/ dst < 0 \/ src < 0
            \/ dst + n > s.bufsize \/ src + n > s.bufsize
    THEN [s EXCEPT !.ub = TRUE]
    ELSE [s EXCEPT !.buf = [i \in DOMAIN s.buf |->
             IF i >= dst /\ i < dst + n THEN s.buf[i - dst + src]
             ELSE s.buf[i]]]

\* strncpy(l->buf, str, n): copies at most n bytes of str and pads with NULs
\* up to n; writes no terminator when str has n bytes or more
strncpy(s, str, n) ==
    IF n < 0 \/ n > s.bufsize THEN [s EXCEPT !.ub = TRUE]
    ELSE [s EXCEPT !.buf = [i \in DOMAIN s.buf |->
             IF i >= n THEN s.buf[i]
             ELSE IF i < Len(str) THEN str[i + 1]
             ELSE 0]]

\* strcpy(l->buf, str): all of str and its terminator
strcpy(s, str) ==
    IF Len(str) + 1 > s.bufsize THEN [s EXCEPT !.ub = TRUE]
    ELSE [s EXCEPT !.buf = [i \in DOMAIN s.buf |->
             IF i < Len(str) THEN str[i + 1]
             ELSE IF i = Len(str) THEN 0
             ELSE s.buf[i]]]

\* snprintf(l->buf, size, "%s", str): at most size-1 bytes of str and a
\* terminator; nothing is written when size is 0
snprintf(s, size, str) ==
    IF size = 0 THEN s
    ELSE IF size > s.bufsize THEN [s EXCEPT !.ub = TRUE]
    ELSE LET n == Min(Len(str), size - 1)
         IN [s EXCEPT !.buf = [i \in DOMAIN s.buf |->
                IF i < n THEN str[i + 1]
                ELSE IF i = n THEN 0
                ELSE s.buf[i]]]

----------------------------------------------------------------------------
(* The append buffer and the cursor moves *)

\* abAppend(&l->ab, bytes, Len(bytes))
\* abAppend writing the bytes to the output at once
abAppend_unbuffered(s, bytes) ==
    [s EXCEPT !.out = @ \o bytes, !.nwrites = @ + 1]

abAppend(s, bytes) == [s EXCEPT !.ab = @ \o bytes]

\* abAppend(&l->ab, l->buf + from, n): reads n bytes of the line buffer
abAppendBuf(s, from, n) ==
    IF n <= 0 THEN s
    ELSE IF from < 0 \/ from + n > s.bufsize THEN [s EXCEPT !.ub = TRUE]
    ELSE abAppend(s, [k \in 1..n |-> s.buf[from + k - 1]])

\* flushABuffer: one write of the whole append buffer to l->ofd
flushABuffer(s) ==
    IF Len(s.ab) # 0
    THEN [s EXCEPT !.out = @ \o s.ab, !.ab = << >>, !.nwrites = @ + 1]
    ELSE s

\* printf("%d", n) for n >= 0
RECURSIVE FormatInt(_)
FormatInt(n) ==
    IF n < 10 THEN << 48 + n >>
    ELSE FormatInt(n \div 10) \o << 48 + (n % 10) >>

\* while (n--) abAppend("\x08"): a negative n runs the loop without end
moveCursorLeftWithBackspace(s, n) ==
    IF n < 0 THEN [s EXCEPT !.ub = TRUE]
    ELSE abAppend(s, [k \in 1..n |-> 8])

\* snprintf(seq, "\x1b[%dC", n); abAppend(seq)
moveCursorRight(s, n) ==
    abAppend(s, << 27, 91 >> \o FormatInt(n) \o << 67 >>)

\* modifyPos printing the rest of the line again after the move
modifyPos_rewrite(s, pos0) ==
    LET pos == IF pos0 < 0 THEN 0
               ELSE IF pos0 > s.len THEN s.len
               ELSE pos0
        s1 == IF pos < s.pos THEN moveCursorLeftWithBackspace(s, s.pos - pos)
              ELSE IF pos > s.pos THEN moveCursorRight(s, pos - s.pos)
              ELSE s
        s2 == abAppend(s1, [k \in 1..s.len - pos |-> s.buf[pos + k - 1]])
        s3 == moveCursorLeftWithBackspace(s2, s.len - pos)
    IN [s3 EXCEPT !.pos = pos]

modifyPos(s, pos0) ==
    LET pos == IF pos0 < 0 THEN 0
               ELSE IF pos0 > s.len THEN s.len
               ELSE pos0
        s1 == IF pos < s.pos THEN moveCursorLeftWithBackspace(s, s.pos - pos)
              ELSE IF pos > s.pos THEN moveCursorRight(s, pos - s.pos)
              ELSE s
    IN [s1 EXCEPT !.pos = pos]

\* linenoiseBeep
linenoiseBeep(s) == abAppend(s, << 7 >>)

\* Single line low level line refresh
refreshLine(s) ==
    LET s1 == moveCursorLeftWithBackspace(s, s.pos)
        s2 == abAppend(s1, << 27, 91, 48, 75 >>)
        s3 == IF maskmode = 1
              THEN abAppend(s2, [k \in 1..s.len |-> MaskChar])
              ELSE abAppendBuf(s2, 0, s.len)
    IN IF s.pos < s.len
       THEN moveCursorLeftWithBackspace(s3, s.len - s.pos)
       ELSE s3

----------------------------------------------------------------------------
(* Cursor/buffer mutations *)

\* linenoiseEditInsert with the capacity test off by one (len <= buflen)
linenoiseEditInsert_offByOne(s, c) ==
    IF s.len <= s.buflen
    THEN LET d == IF maskmode = 1 THEN MaskChar ELSE c
             s1 == abAppend(s, << d >>)
         IN IF s.len = s.pos
            THEN LET s2 == poke(s1, s1.pos, c)
                     s3 == [s2 EXCEPT !.len = @ + 1, !.pos = @ + 1]
                 IN poke(s3, s3.len, 0)
            ELSE LET s2 == memmove(s1, s1.pos + 1, s1.pos, s1.len - s1.pos)
                     s3 == poke(s2, s2.pos, c)
                     s4 == [s3 EXCEPT !.len = @ + 1, !.pos = @ + 1]
                     s5 == poke(s4, s4.len, 0)
                     s6 == abAppendBuf(s5, s5.pos, s5.len - s5.pos)
                 IN moveCursorLeftWithBackspace(s6, s6.len - s6.pos)
    ELSE s

linenoiseEditInsert(s, c) ==
    IF s.len < s.buflen
    THEN LET d == IF maskmode = 1 THEN MaskChar ELSE c
             s1 == abAppend(s, << d >>)
         IN IF s.len = s.pos
            THEN LET s2 == poke(s1, s1.pos, c)
                     s3 == [s2 EXCEPT !.len = @ + 1, !.pos = @ + 1]
                 IN poke(s3, s3.len, 0)
            ELSE LET s2 == memmove(s1, s1.pos + 1, s1.pos, s1.len - s1.pos)
                     s3 == poke(s2, s2.pos, c)
                     s4 == [s3 EXCEPT !.len = @ + 1, !.pos = @ + 1]
                     s5 == poke(s4, s4.len, 0)
                     s6 == abAppendBuf(s5, s5.pos, s5.len - s5.pos)
                 IN moveCursorLeftWithBackspace(s6, s6.len - s6.pos)
    ELSE s

linenoiseEditMoveLeft(s) ==
    IF s.pos > 0 THEN modifyPos(s, s.pos - 1) ELSE s

linenoiseEditMoveRight(s) ==
    IF s.pos # s.len THEN modifyPos(s, s.pos + 1) ELSE s

linenoiseEditMoveHome(s) ==
    IF s.pos # 0 THEN modifyPos(s, 0) ELSE s

linenoiseEditMoveEnd(s) ==
    IF s.pos # s.len THEN modifyPos(s, s.len) ELSE s

linenoiseEditDelete(s) ==
    IF s.len > 0 /\ s.pos < s.len
    THEN LET s1 == memmove(s, s.pos, s.pos + 1, s.len - s.pos - 1)
             s2 == [s1 EXCEPT !.len = @ - 1]
             s3 == poke(s2, s2.len, 0)
             s4 == abAppendBuf(s3, s3.pos, s3.len - s3.pos)
             s5 == abAppend(s4, << Space >>)
         IN moveCursorLeftWithBackspace(s5, s5.len - s5.pos + 1)
    ELSE s

\* linenoiseEditBackspace moving the tail from one byte too far right
linenoiseEditBackspace_wrongTail(s) ==
    IF s.pos > 0 /\ s.len > 0
    THEN LET s1 == IF s.pos < s.len
                   THEN memmove(s, s.pos - 1, s.pos + 1, s.len - s.pos - 1)
                   ELSE s
             s2 == [s1 EXCEPT !.pos = @ - 1, !.len = @ - 1]
             s3 == poke(s2, s2.len, 0)
         IN IF s3.pos # s3.len
            THEN LET s4 == moveCursorLeftWithBackspace(s3, 1)
                     s5 == abAppendBuf(s4, s4.pos, s4.len - s4.pos)
                     s6 == abAppend(s5, << Space >>)
                 IN moveCursorLeftWithBackspace(s6, s6.len - s6.pos + 1)
            ELSE abAppend(s3, << 8, Space, 8 >>)
    ELSE s

linenoiseEditBackspace(s) ==
    IF s.pos > 0 /\ s.len > 0
    THEN LET s1 == memmove(s, s.pos - 1, s.pos, s.len - s.pos)
             s2 == [s1 EXCEPT !.pos = @ - 1, !.len = @ - 1]
             s3 == poke(s2, s2.len, 0)
         IN IF s3.pos # s3.len
            THEN LET s4 == moveCursorLeftWithBackspace(s3, 1)
                     s5 == abAppendBuf(s4, s4.pos, s4.len - s4.pos)
                     s6 == abAppend(s5, << Space >>)
                 IN moveCursorLeftWithBackspace(s6, s6.len - s6.pos + 1)
            ELSE abAppend(s3, << 8, Space, 8 >>)
    ELSE s

----------------------------------------------------------------------------
(* The history store.  H is the record of the three statics                *)
(* [history, history_len, history_max_len] and ret, the value returned.    *)

\* history[i] for the C index i (0 is the oldest entry)
HistEntry(H, i) == H.history[i + 1]

\* linenoiseHistoryAdd without the test for a duplicated line
linenoiseHistoryAdd_noDupCheck(H, line) ==
    IF H.history_max_len = 0 THEN [H EXCEPT !.ret = 0]
    ELSE LET H1 == IF H.history_len = H.history_max_len
                   THEN [H EXCEPT !.history = Tail(@), !.history_len = @ - 1]
                   ELSE H
         IN [H1 EXCEPT !.history = Append(@, line),
                       !.history_len = @ + 1,
                       !.ret = 1]

\* linenoiseHistoryAdd dropping the newest entry of a full store
linenoiseHistoryAdd_dropNewest(H, line) ==
    IF H.history_max_len = 0 THEN [H EXCEPT !.ret = 0]
    ELSE IF H.history_len # 0 /\ HistEntry(H, H.history_len - 1) = line
    THEN [H EXCEPT !.ret = 0]
    ELSE LET H1 == IF H.history_len = H.history_max_len
                   THEN [H EXCEPT !.history = SubSeq(@, 1, Len(@) - 1),
                                  !.history_len = @ - 1]
                   ELSE H
         IN [H1 EXCEPT !.history = Append(@, line),
                       !.history_len = @ + 1,
                       !.ret = 1]

\* linenoiseHistoryAdd comparing the line with the oldest entry
linenoiseHistoryAdd_dupOldest(H, line) ==
    IF H.history_max_len = 0 THEN [H EXCEPT !.ret = 0]
    ELSE IF H.history_len # 0 /\ HistEntry(H, 0) = line
    THEN [H EXCEPT !.ret = 0]
    ELSE LET H1 == IF H.history_len = H.history_max_len
                   THEN [H EXCEPT !.history = Tail(@), !.history_len = @ - 1]
                   ELSE H
         IN [H1 EXCEPT !.history = Append(@, line),
                       !.history_len = @ + 1,
                       !.ret = 1]

linenoiseHistoryAdd(H, line) ==
    IF H.history_max_len = 0 THEN [H EXCEPT !.ret = 0]
    \* Don't add duplicated lines.
    ELSE IF H.history_len # 0 /\ HistEntry(H, H.history_len - 1) = line
    THEN [H EXCEPT !.ret = 0]
    ELSE LET H1 == IF H.history_len = H.history_max_len
                   THEN [H EXCEPT !.history = Tail(@), !.history_len = @ - 1]
                   ELSE H
         IN [H1 EXCEPT !.history = Append(@, line),
                       !.history_len = @ + 1,
                       !.ret = 1]

\* linenoiseHistorySetMaxLen keeping the oldest entries
linenoiseHistorySetMaxLen_keepOldest(H, len) ==
    IF len < 1 THEN [H EXCEPT !.ret = 0]
    ELSE LET tocopy == IF len < H.history_len THEN len ELSE H.history_len
             kept == [k \in 1..tocopy |-> H.history[k]]
         IN [H EXCEPT !.history = kept,
                      !.history_max_len = len,
                      !.history_len = IF H.history_len > len THEN len ELSE @,
                      !.ret = 1]

linenoiseHistorySetMaxLen(H, len) ==
    IF len < 1 THEN [H EXCEPT !.ret = 0]
    ELSE LET tocopy == IF len < H.history_len THEN len ELSE H.history_len
             kept == [k \in 1..tocopy |->
                         H.history[H.history_len - tocopy + k]]
         IN [H EXCEPT !.history = kept,
                      !.history_max_len = len,
                      !.history_len = IF H.history_len > len THEN len ELSE @,
                      !.ret = 1]

\* The history file is the sequence of its bytes.
NewLine == 10
CarriageReturn == 13

\* the index of the first b in str, 0 when there is none
RECURSIVE strchr(_, _)
strchr(str, b) ==
    IF str = << >> THEN 0
    ELSE IF Head(str) = b THEN 1
    ELSE LET r == strchr(Tail(str), b) IN IF r = 0 THEN 0 ELSE r + 1

\* for (j = 0; j < history_len; j++) fprintf(fp, "%s\n", history[j]);
RECURSIVE SaveFrom(_, _)
SaveFrom(H, j) ==
    IF j >= H.history_len THEN << >>
    ELSE HistEntry(H, j) \o << NewLine >> \o SaveFrom(H, j + 1)

linenoiseHistorySave(H) == SaveFrom(H, 0)

\* what fgets(buf, LINENOISE_MAX_LINE, fp) reads of the rest of the file:
\* the bytes up to the first newline, newline included, and no more than
\* LINENOISE_MAX_LINE - 1 of them
fgets(file) ==
    LET nl == strchr(file, NewLine)
        n == IF nl = 0 THEN Len(file) ELSE nl
    IN SubSeq(file, 1, Min(n, LINENOISE_MAX_LINE - 1))

\* the body of the loop of linenoiseHistoryLoad, for the rest of the file
RECURSIVE LoadFrom(_, _)
LoadFrom(H, file) ==
    IF file = << >> THEN H
    ELSE LET buf == fgets(file)
             cr == strchr(buf, CarriageReturn)
             p == IF cr = 0 THEN strchr(buf, NewLine) ELSE cr
             line == IF p # 0 THEN SubSeq(buf, 1, p - 1) ELSE buf
         IN LoadFrom(linenoiseHistoryAdd(H, line),
                     SubSeq(file, Len(buf) + 1, Len(file)))

linenoiseHistoryLoad(H, file) ==
    [LoadFrom(H, file) EXCEPT !.ret = 0]

\* linenoiseEditHistoryNext without the clamp at the oldest entry
linenoiseEditHistoryNext_noClamp(s, H, dir) ==
    IF H.history_len > 1
    THEN LET slot == H.history_len - 1 - s.history_index
             bad == slot < 0 \/ slot >= H.history_len \/ strlen(s) = s.bufsize
             H1 == IF bad THEN H
                   ELSE [H EXCEPT !.history[slot + 1] = strdup(s)]
             hi == s.history_index
                     + (IF dir = LINENOISE_HISTORY_PREV THEN 1 ELSE -1)
         IN IF bad THEN [l |-> [s EXCEPT !.ub = TRUE], H |-> H]
            ELSE IF hi < 0
            THEN [l |-> [s EXCEPT !.history_index = 0], H |-> H1]
            ELSE IF hi >= H.history_len
            THEN [l |-> [s EXCEPT !.history_index = hi], H |-> H1]
            ELSE LET s1 == [s EXCEPT !.history_index = hi]
                     s2 == strncpy(s1, HistEntry(H1, H.history_len - 1 - hi),
                                   s1.buflen)
                     s3 == poke(s2, s2.buflen - 1, 0)
                     s4 == [s3 EXCEPT !.len = strlen(s3)]
                     s5 == modifyPos(s4, s4.len)
                 IN [l |-> refreshLine(s5), H |-> H1]
    ELSE [l |-> s, H |-> H]

\* Substitute the currently edited line with the next or previous history
\* entry.  Returns the session and the store.
linenoiseEditHistoryNext(s, H, dir) ==
    IF H.history_len > 1
    THEN LET slot == H.history_len - 1 - s.history_index
             bad == slot < 0 \/ slot >= H.history_len \/ strlen(s) = s.bufsize
             H1 == IF bad THEN H
                   ELSE [H EXCEPT !.history[slot + 1] = strdup(s)]
             hi == s.history_index
                     + (IF dir = LINENOISE_HISTORY_PREV THEN 1 ELSE -1)
         IN IF bad THEN [l |-> [s EXCEPT !.ub = TRUE], H |-> H]
            ELSE IF hi < 0
            THEN [l |-> [s EXCEPT !.history_index = 0], H |-> H1]
            ELSE IF hi >= H.history_len
            THEN [l |-> [s EXCEPT !.history_index = H.history_len - 1],
                  H |-> H1]
            ELSE LET s1 == [s EXCEPT !.history_index = hi]
                     s2 == strncpy(s1, HistEntry(H1, H.history_len - 1 - hi),
                                   s1.buflen)
                     s3 == poke(s2, s2.buflen - 1, 0)
                     s4 == [s3 EXCEPT !.len = strlen(s3)]
                     s5 == modifyPos(s4, s4.len)
                 IN [l |-> refreshLine(s5), H |-> H1]
    ELSE [l |-> s, H |-> H]

----------------------------------------------------------------------------
(* Hints.  A provider maps the C string in the buffer to a hint or NULL;   *)
(* the providers of the model leave color and bold as handleHints set      *)
(* them (-1 and 0), and their hints are made of the byte 'h', which no key *)
(* of the model types.                                                     *)

HintChar == 104

\* hintsCallback = NULL: no hint provider is registered
NoHints == "NULL"

\* the provider "exact" suggests "h" for the line "a" and nothing else; the
\* provider "grow" suggests as many 'h' as the line has characters
hintsOf(cb, str) ==
    IF cb = "exact"
    THEN IF str = << 97 >> THEN << HintChar >> ELSE NULL
    ELSE IF str = << >> THEN NULL
    ELSE [k \in 1..Len(str) |-> HintChar]

HintProviders == {"exact", "grow"}

printFromPosToRight(s, max) ==
    LET len0 == s.len - s.pos
        len == IF max # -1 /\ len0 > max THEN max ELSE len0
    IN IF len > 0 THEN abAppendBuf(s, s.pos, len) ELSE s

\* showHint leaving the cursor, and the position, behind the line
showHint_movesCursor(s, hint, color0, bold) ==
    LET s1 == printFromPosToRight(s, -1)
        s2 == abAppend(s1, hint)
        s3 == moveCursorLeftWithBackspace(s2, Len(hint))
    IN [s3 EXCEPT !.showing_hint = hint, !.hint_pos = s.len, !.pos = s.len]

showHint(s, hint, color0, bold) ==
    LET hintlen == Len(hint)
        \* ensure the cursor is at the end of the line
        s1 == printFromPosToRight(s, -1)
        color == IF bold = 1 /\ color0 = -1 THEN 37 ELSE color0
        styled == color # -1 \/ bold # 0
        seq == IF styled
               THEN << 27, 91 >> \o FormatInt(bold) \o << 59 >>
                       \o FormatInt(color) \o << 59, 52, 57, 109 >>
               ELSE << >>
        s2 == abAppend(abAppend(s1, seq), hint)
        s3 == IF styled THEN abAppend(s2, << 27, 91, 48, 109 >>) ELSE s2
        s4 == moveCursorLeftWithBackspace(s3, hintlen + (s.len - s.pos))
    IN [s4 EXCEPT !.showing_hint = hint, !.hint_pos = s.pos]

\* freeHintsCallback = NULL: no release callback is registered
NoFree == "NULL"

\* s.unreleased counts the strings the provider returned to a program with
\* a release callback that the callback has not been given yet
freeHint(s) ==
    IF s.showing_hint # NULL
    THEN [s EXCEPT !.showing_hint = NULL,
                   !.unreleased = IF freeHintsCallback # NoFree
                                  THEN @ - 1 ELSE @]
    ELSE s

clearHint(s) ==
    IF s.showing_hint = NULL THEN s
    ELSE LET hintlen == Len(s.showing_hint)
             before == s.pos < s.hint_pos
             \* the cursor is before the hint: move it to the right first
             s1 == IF before THEN moveCursorRight(s, s.hint_pos - s.pos)
                   ELSE s
             clearlen == IF before THEN hintlen
                         ELSE hintlen - (s.pos - s.hint_pos)
             back == IF before THEN hintlen + (s.hint_pos - s.pos)
                     ELSE clearlen
             s2 == abAppend(s1, [k \in 1..clearlen |-> Space])
         IN freeHint(moveCursorLeftWithBackspace(s2, back))

handleHints(s) ==
    IF hintsCallback = NoHints THEN s
    ELSE LET hint == hintsOf(hintsCallback, strdup(s))
             s0 == [s EXCEPT !.ab = << >>,
                             !.unreleased =
                                 IF hint # NULL /\ freeHintsCallback # NoFree
                                 THEN @ + 1 ELSE @]
             color == -1
             bold == 0
             s1 == IF hint # NULL
                   THEN IF s0.showing_hint # NULL
                        THEN IF s0.showing_hint # hint
                             \* a hint is shown, but now there is a new one
                             THEN showHint(clearHint(s0), hint, color, bold)
                             ELSE s0
                        ELSE showHint(s0, hint, color, bold)
                   ELSE clearHint(s0)
         IN flushABuffer([s1 EXCEPT !.ub = @ \/ strlen(s) = s.bufsize])

----------------------------------------------------------------------------
(* Completion.  lc is the candidate list the provider returned.            *)

NoCallback == << << -2 >> >>

refreshLineWithCompletion(s, lc) ==
    IF s.completion_idx < Len(lc)
    THEN LET cand == lc[s.completion_idx + 1]
             s1 == [s EXCEPT !.len = Len(cand)]
             s2 == strncpy(s1, cand, s1.buflen - 1)
             s3 == modifyPos(s2, s2.len)
         IN refreshLine(s3)
    ELSE refreshLine(s)

\* completeLine staying silent when the provider finds nothing
completeLine_silent(s, keypressed) ==
    LET lc == completionCallback
        n == Len(lc)
        shown(x) == IF x.in_completion = 1 /\ x.completion_idx < n
                    THEN refreshLineWithCompletion(x, lc)
                    ELSE refreshLine(x)
        done(x) == IF x.in_completion = 0
                   THEN [x EXCEPT !.completion_str = NULL]
                   ELSE x
    IN IF n = 0
       THEN [l |-> done([s EXCEPT !.in_completion = 0]),
             c |-> keypressed]
       ELSE IF keypressed = TAB
       THEN LET s1 == IF s.in_completion = 0
                      THEN [s EXCEPT !.in_completion = 1, !.completion_idx = 0]
                      ELSE [s EXCEPT !.completion_idx = (@ + 1) % n]
                s2 == IF s.in_completion # 0 /\ s1.completion_idx = n
                      THEN linenoiseBeep(s1)
                      ELSE s1
            IN [l |-> done(shown(s2)), c |-> 0]
       ELSE IF keypressed = ESC
       THEN \* Re-show original buffer
            LET s1 == strcpy(s, s.completion_str)
                s2 == [s1 EXCEPT !.len = strlen(s1)]
                s3 == modifyPos(s2, s2.len)
                s4 == IF s3.completion_idx < n THEN refreshLine(s3) ELSE s3
                s5 == [s4 EXCEPT !.in_completion = 0]
            IN [l |-> done(shown(s5)), c |-> 0]
       ELSE \* Update buffer and return
            LET s1 == IF s.completion_idx < n
                      THEN LET cand == lc[s.completion_idx + 1]
                               a == snprintf(s, s.buflen, cand)
                               b == [a EXCEPT !.len = Len(cand)]
                           IN modifyPos(b, b.len)
                      ELSE s
                s2 == [s1 EXCEPT !.in_completion = 0]
            IN [l |-> done(shown(s2)), c |-> keypressed]

\* Returns the session and c, the byte the caller still has to process
\* (0 when the key was consumed).
completeLine(s, keypressed) ==
    LET lc == completionCallback
        n == Len(lc)
        shown(x) == IF x.in_completion = 1 /\ x.completion_idx < n
                    THEN refreshLineWithCompletion(x, lc)
                    ELSE refreshLine(x)
        done(x) == IF x.in_completion = 0
                   THEN [x EXCEPT !.completion_str = NULL]
                   ELSE x
    IN IF n = 0
       THEN [l |-> done([linenoiseBeep(s) EXCEPT !.in_completion = 0]),
             c |-> keypressed]
       ELSE IF keypressed = TAB
       THEN LET s1 == IF s.in_completion = 0
                      THEN [s EXCEPT !.in_completion = 1, !.completion_idx = 0]
                      ELSE [s EXCEPT !.completion_idx = (@ + 1) % n]
                s2 == IF s.in_completion # 0 /\ s1.completion_idx = n
                      THEN linenoiseBeep(s1)
                      ELSE s1
            IN [l |-> done(shown(s2)), c |-> 0]
       ELSE IF keypressed = ESC
       THEN \* Re-show original buffer
            LET s1 == strcpy(s, s.completion_str)
                s2 == [s1 EXCEPT !.len = strlen(s1)]
                s3 == modifyPos(s2, s2.len)
                s4 == IF s3.completion_idx < n THEN refreshLine(s3) ELSE s3
                s5 == [s4 EXCEPT !.in_completion = 0]
            IN [l |-> done(shown(s5)), c |-> 0]
       ELSE \* Update buffer and return
            LET s1 == IF s.completion_idx < n
                      THEN LET cand == lc[s.completion_idx + 1]
                               a == snprintf(s, s.buflen, cand)
                               b == [a EXCEPT !.len = Len(cand)]
                           IN modifyPos(b, b.len)
                      ELSE s
                s2 == [s1 EXCEPT !.in_completion = 0]
            IN [l |-> done(shown(s2)), c |-> keypressed]

----------------------------------------------------------------------------
(* The terminal on the output descriptor: one row of cells and a cursor.   *)
(* It implements the three sequences the header comment lists: backspace   *)
(* as a left move, CUF (ESC [ n C) and EL (ESC [ 0 K); BEL rings and any   *)
(* other control byte is ignored.                                          *)

\* the prompt of the sessions: "> "
Prompt == << 62, 32 >>

\* columns of the terminal row: wide enough for the prompt and any line or
\* completion candidate of the model
TermWidth == Len(Prompt) + MaxCap + 6

BlankRow == [i \in 0..TermWidth - 1 |-> Space]

\* cells is the row the cursor is in, above the row over it
BlankTerm ==
    [cells |-> BlankRow, above |-> BlankRow,
     col |-> 0, pst |-> "ground", arg |-> 0, bells |-> 0]

\* the newline linenoiseEditStop prints: the cursor goes to the start of a
\* fresh row and the row it was in stays on the screen
TermNewline(t) ==
    [BlankTerm EXCEPT !.above = t.cells]

TermByte(t, b) ==
    IF t.pst = "esc"
    THEN IF b = 91 THEN [t EXCEPT !.pst = "csi", !.arg = 0]
         ELSE [t EXCEPT !.pst = "ground"]
    ELSE IF t.pst = "csi"
    THEN IF b \in 48..57 THEN [t EXCEPT !.arg = @ * 10 + (b - 48)]
         ELSE IF b = 59 THEN [t EXCEPT !.arg = 0]
         ELSE IF b = 67
         THEN [t EXCEPT !.col = Min(TermWidth - 1, @ + Max(1, t.arg)),
                        !.pst = "ground"]
         ELSE IF b = 75 /\ t.arg = 0
         THEN [t EXCEPT !.cells = [i \in 0..TermWidth - 1 |->
                                      IF i >= t.col THEN Space ELSE @[i]],
                        !.pst = "ground"]
         ELSE [t EXCEPT !.pst = "ground"]
    ELSE IF b = 27 THEN [t EXCEPT !.pst = "esc"]
    ELSE IF b = 8 THEN [t EXCEPT !.col = Max(0, @ - 1)]
    ELSE IF b = 7 THEN [t EXCEPT !.bells = 1]
    ELSE IF b < 32 \/ b = 127 THEN t
    ELSE [t EXCEPT !.cells[t.col] = b,
                   !.col = Min(TermWidth - 1, @ + 1)]

RECURSIVE TermWrite(_, _)
TermWrite(t, bytes) ==
    IF bytes = << >> THEN t
    ELSE TermWrite(TermByte(t, Head(bytes)), Tail(bytes))

\* the row shows exactly text: its characters from column 0 on, then blanks
TermShows(t, text) ==
    \A i \in 0..TermWidth - 1 :
        t.cells[i] = IF i < Len(text) THEN text[i + 1] ELSE Space

----------------------------------------------------------------------------
(* Raw mode.  A terminal configuration is the set of the termios flags     *)
(* that are on; T is the record [rawmode, orig_termios, termios, errno,    *)
(* ret].  getok and setok tell whether tcgetattr and tcsetattr succeed.    *)

\* the configuration of a terminal in its usual line mode
Cooked ==
    {"BRKINT", "ICRNL", "IXON", "OPOST", "ECHO", "ICANON", "IEXTEN", "ISIG"}

\* the flags enableRawMode turns off, and what it turns on
RawOff ==
    {"BRKINT", "ICRNL", "INPCK", "ISTRIP", "IXON", "OPOST",
     "ECHO", "ICANON", "IEXTEN", "ISIG"}
RawOn == {"CS8", "VMIN1"}

enableRawMode(T, tty, getok, setok) ==
    IF ~tty \/ ~getok
    THEN [T EXCEPT !.errno = ENOTTY, !.ret = -1]
    ELSE LET T1 == [T EXCEPT !.orig_termios = T.termios]
             raw == (T1.orig_termios \ RawOff) \cup RawOn
         IN IF ~setok
            THEN [T1 EXCEPT !.errno = ENOTTY, !.ret = -1]
            ELSE [T1 EXCEPT !.termios = raw, !.rawmode = 1, !.ret = 0]

\* disableRawMode clearing rawmode without the tcsetattr call
disableRawMode_noRestore(T, setok) ==
    IF T.rawmode # 0 /\ setok THEN [T EXCEPT !.rawmode = 0] ELSE T

disableRawMode(T, setok) ==
    IF T.rawmode # 0 /\ setok
    THEN [T EXCEPT !.termios = T.orig_termios, !.rawmode = 0]
    ELSE T

----------------------------------------------------------------------------
(* The session API.  M is the record [l, H, rv, errno, op] that one call   *)
(* of linenoiseEditFeed works on.                                          *)

\* no insert to remember
NoSnap == [tag |-> "none", line |-> << >>, len |-> 0, pos |-> 0]

\* the pointer linenoiseEditMore
linenoiseEditMore == << -3 >>


\* the struct before linenoiseEditStart has populated it
NoSession ==
    [in_completion |-> 0, completion_idx |-> 0, completion_str |-> NULL,
     buf |-> << >>, bufsize |-> 0, buflen |-> 0, plen |-> 0,
     pos |-> 0, len |-> 0, history_index |-> 0,
     showing_hint |-> NULL, hint_pos |-> 0, unreleased |-> 0,
     ab |-> << >>, out |-> << >>, nwrites |-> 0, tty |-> FALSE, ub |-> FALSE]

\* doWrite(l, bytes): write() to l->ofd
doWrite(s, bytes) == [s EXCEPT !.out = @ \o bytes, !.nwrites = @ + 1]

\* linenoiseEditStart on the caller's array of cap bytes, whose bytes from
\* index 1 on hold whatever the caller left there (stale); tty is isatty(ifd).
linenoiseEditStart(s, H, T, cap, stale, tty, getok, setok) ==
    LET s1 == [s EXCEPT !.in_completion = 0,
                        !.buf = [i \in 0..cap - 1 |->
                                    IF i = 0 THEN 0 ELSE stale[i]],
                        !.bufsize = cap,
                        \* l->buf[0] = '\0'; l->buflen--;
                        !.buflen = (cap - 1) % SizeMod,
                        !.ub = @ \/ cap = 0,
                        !.plen = Len(Prompt),
                        !.pos = 0, !.len = 0, !.history_index = 0,
                        !.showing_hint = NULL, !.hint_pos = 0,
                        !.unreleased = 0,
                        !.completion_str = NULL,
                        !.out = << >>, !.nwrites = 0,
                        !.tty = tty]
        T1 == enableRawMode(T, tty, getok, setok)
    IN IF ~tty
       THEN [l |-> s1, H |-> [H EXCEPT !.ret = 0], T |-> T, ret |-> 0]
       ELSE IF T1.ret = -1
       THEN [l |-> s1, H |-> [H EXCEPT !.ret = 0], T |-> T1, ret |-> -1]
       ELSE [l |-> doWrite(s1, Prompt), H |-> linenoiseHistoryAdd(H, << >>),
             T |-> T1, ret |-> 0]

\* history_len--; free(history[history_len]);
popHistory(M) ==
    IF M.H.history_len <= 0
    THEN [M EXCEPT !.H.history_len = @ - 1, !.l.ub = TRUE]
    ELSE [M EXCEPT !.H.history_len = @ - 1,
                   !.H.history = SubSeq(@, 1, Len(@) - 1)]

caseENTER(M) ==
    LET M1 == popHistory(M)
        M2 == IF hintsCallback # NoHints
              THEN [M1 EXCEPT !.l = refreshLine(@)]
              ELSE M1
    IN [M2 EXCEPT !.rv = strdup(M2.l),
                  !.l.ub = @ \/ strlen(M2.l) = M2.l.bufsize,
                  !.op = "enter"]

\* the Ctrl-C branch reporting the end-of-input condition
caseCTRL_C_wrongErrno(M) ==
    [M EXCEPT !.errno = ENOENT, !.op = "ctrl_c"]

caseCTRL_C(M) ==
    [M EXCEPT !.errno = EAGAIN, !.op = "ctrl_c"]

caseBACKSPACE(M) ==
    [M EXCEPT !.l = linenoiseEditBackspace(@), !.rv = linenoiseEditMore,
              !.op = "backspace"]

\* the Ctrl-D branch ending the session whenever the cursor is at the end
caseCTRL_D_atEnd(M) ==
    LET before == [tag |-> "ctrl_d", line |-> Line(M.l),
                   len |-> M.l.len, pos |-> M.l.pos]
    IN IF M.l.pos < M.l.len
       THEN [M EXCEPT !.l = linenoiseEditDelete(@),
                      !.rv = linenoiseEditMore,
                      !.op = "ctrl_d", !.snap = before]
       ELSE [popHistory(M) EXCEPT !.errno = ENOENT, !.op = "eof",
                                  !.snap = before]

caseCTRL_D(M) ==
    LET before == [tag |-> "ctrl_d", line |-> Line(M.l),
                   len |-> M.l.len, pos |-> M.l.pos]
    IN IF M.l.len > 0
       THEN [M EXCEPT !.l = linenoiseEditDelete(@),
                      !.rv = linenoiseEditMore,
                      !.op = "ctrl_d", !.snap = before]
       ELSE [popHistory(M) EXCEPT !.errno = ENOENT, !.op = "eof",
                                  !.snap = before]

caseCTRL_T(M) ==
    LET s == M.l
    IN IF s.pos > 0 /\ s.pos < s.len /\ s.pos \notin DOMAIN s.buf
       THEN [M EXCEPT !.l.ub = TRUE, !.rv = linenoiseEditMore,
                      !.op = "transpose"]
       ELSE IF s.pos > 0 /\ s.pos < s.len
       THEN LET s1 == [s EXCEPT !.buf[s.pos - 1] = s.buf[s.pos],
                                !.buf[s.pos] = s.buf[s.pos - 1]]
                s2 == IF s1.pos # s1.len - 1
                      THEN modifyPos(s1, s1.pos + 1)
                      ELSE s1
            IN [M EXCEPT !.l = refreshLine(s2), !.rv = linenoiseEditMore,
                         !.op = "transpose"]
       ELSE [M EXCEPT !.rv = linenoiseEditMore, !.op = "transpose"]

caseMove(M, which) ==
    [M EXCEPT !.l = CASE which = "left" -> linenoiseEditMoveLeft(@)
                      [] which = "right" -> linenoiseEditMoveRight(@)
                      [] which = "home" -> linenoiseEditMoveHome(@)
                      [] which = "end" -> linenoiseEditMoveEnd(@),
              !.rv = linenoiseEditMore, !.op = "move"]

caseHistory(M, dir) ==
    LET r == linenoiseEditHistoryNext(M.l, M.H, dir)
    IN [M EXCEPT !.l = r.l, !.H = r.H, !.rv = linenoiseEditMore,
                 !.op = IF dir = LINENOISE_HISTORY_PREV THEN "prev" ELSE "next"]

\* the i-th read() of the call: the byte, or ReadErr when read() fails
ReadAt(inp, i) == IF i <= Len(inp) THEN inp[i] ELSE ReadErr

\* the escape decoder passing the byte after ESC on as text when it maps
\* to no key
caseESC_insertsUnknown(M, inp) ==
    LET seq0 == ReadAt(inp, 2)
        seq1 == ReadAt(inp, 3)
        seq2 == ReadAt(inp, 4)
        ignore == [M EXCEPT !.l = linenoiseEditInsert(@, seq0),
                             !.rv = linenoiseEditMore, !.op = "ignored"]
    IN IF seq0 = ReadErr \/ seq1 = ReadErr THEN ignore
       ELSE IF seq0 = 91
       THEN IF seq1 >= 48 /\ seq1 <= 57
            THEN IF seq2 = ReadErr THEN ignore
                 ELSE IF seq2 = 126 /\ seq1 = 51
                 THEN [M EXCEPT !.l = linenoiseEditDelete(@),
                                !.rv = linenoiseEditMore, !.op = "delete"]
                 ELSE ignore
            ELSE CASE seq1 = 65 -> caseHistory(M, LINENOISE_HISTORY_PREV)
                   [] seq1 = 66 -> caseHistory(M, LINENOISE_HISTORY_NEXT)
                   [] seq1 = 67 -> caseMove(M, "right")
                   [] seq1 = 68 -> caseMove(M, "left")
                   [] seq1 = 72 -> caseMove(M, "home")
                   [] seq1 = 70 -> caseMove(M, "end")
                   [] OTHER -> ignore
       ELSE IF seq0 = 79
       THEN CASE seq1 = 72 -> caseMove(M, "home")
              [] seq1 = 70 -> caseMove(M, "end")
              [] OTHER -> ignore
       ELSE ignore

caseESC(M, inp) ==
    LET seq0 == ReadAt(inp, 2)
        seq1 == ReadAt(inp, 3)
        seq2 == ReadAt(inp, 4)
        ignore == [M EXCEPT !.rv = linenoiseEditMore, !.op = "ignored"]
    IN IF seq0 = ReadErr \/ seq1 = ReadErr THEN ignore
       ELSE IF seq0 = 91
       THEN IF seq1 >= 48 /\ seq1 <= 57
            THEN IF seq2 = ReadErr THEN ignore
                 ELSE IF seq2 = 126 /\ seq1 = 51
                 THEN [M EXCEPT !.l = linenoiseEditDelete(@),
                                !.rv = linenoiseEditMore, !.op = "delete"]
                 ELSE ignore
            ELSE CASE seq1 = 65 -> caseHistory(M, LINENOISE_HISTORY_PREV)
                   [] seq1 = 66 -> caseHistory(M, LINENOISE_HISTORY_NEXT)
                   [] seq1 = 67 -> caseMove(M, "right")
                   [] seq1 = 68 -> caseMove(M, "left")
                   [] seq1 = 72 -> caseMove(M, "home")
                   [] seq1 = 70 -> caseMove(M, "end")
                   [] OTHER -> ignore
       ELSE IF seq0 = 79
       THEN CASE seq1 = 72 -> caseMove(M, "home")
              [] seq1 = 70 -> caseMove(M, "end")
              [] OTHER -> ignore
       ELSE ignore

caseDefault(M, c) ==
    [M EXCEPT !.l = linenoiseEditInsert(@, c), !.rv = linenoiseEditMore,
              !.op = "insert",
              !.snap = [tag |-> "ins", line |-> Line(M.l),
                        len |-> M.l.len, pos |-> M.l.pos]]

caseCTRL_U(M) ==
    LET s1 == poke(M.l, 0, 0)
        s2 == [s1 EXCEPT !.len = 0]
        s3 == modifyPos(s2, 0)
    IN [M EXCEPT !.l = refreshLine(s3), !.rv = linenoiseEditMore,
                 !.op = "redraw"]

caseCTRL_K(M) ==
    LET s1 == poke(M.l, M.l.pos, 0)
        s2 == [s1 EXCEPT !.len = s1.pos]
    IN [M EXCEPT !.l = refreshLine(s2), !.rv = linenoiseEditMore,
                 !.op = "redraw"]

caseCTRL_R(M) ==
    [M EXCEPT !.l = refreshLine(@), !.rv = linenoiseEditMore,
              !.op = "redraw"]

\* switch (c) of linenoiseEditFeed
keySwitch(M, c, inp) ==
    CASE c = ENTER -> caseENTER(M)
      [] c = CTRL_C -> caseCTRL_C(M)
      [] c = BACKSPACE \/ c = CTRL_H -> caseBACKSPACE(M)
      [] c = CTRL_D -> caseCTRL_D(M)
      [] c = CTRL_T -> caseCTRL_T(M)
      [] c = CTRL_B -> caseMove(M, "left")
      [] c = CTRL_F -> caseMove(M, "right")
      [] c = CTRL_P -> caseHistory(M, LINENOISE_HISTORY_PREV)
      [] c = CTRL_N -> caseHistory(M, LINENOISE_HISTORY_NEXT)
      [] c = ESC -> caseESC(M, inp)
      [] c = CTRL_U -> caseCTRL_U(M)
      [] c = CTRL_K -> caseCTRL_K(M)
      [] c = CTRL_A -> caseMove(M, "home")
      [] c = CTRL_E -> caseMove(M, "end")
      [] c = CTRL_R -> caseCTRL_R(M)
      [] c = TAB -> [M EXCEPT !.rv = linenoiseEditMore, !.op = "tab"]
      [] OTHER -> caseDefault(M, c)

\* linenoiseEditFeed with inp the results of the read() calls it makes
linenoiseEditFeed(M0, inp) ==
    LET c == ReadAt(inp, 1)
        \* abInit; rv = NULL
        M == [M0 EXCEPT !.l.ab = << >>, !.l.out = << >>, !.l.nwrites = 0,
                        !.rv = NULL, !.completed = FALSE]
        \* EXIT: flushABuffer; abFree.  The snapshot an insert took lives on
        \* only through a backspace that follows it at once; the snapshot
        \* the first Tab of a completion took lives on until its Escape;
        \* the snapshot a navigation key took at index 0 lives on through
        \* the navigation keys that follow it at once.
        exit(X) == [X EXCEPT !.l = flushABuffer(@),
                             !.snap = IF X.op \in {"insert", "ctrl_d", "eof"}
                                      THEN @
                                      ELSE IF X.op = "backspace"
                                              /\ M0.snap.tag = "ins"
                                              /\ X.completed = FALSE
                                      THEN [@ EXCEPT !.tag = "insbs"]
                                      ELSE IF X.op = "tab"
                                              /\ X.l.in_completion = 1
                                      THEN IF M0.l.in_completion = 0
                                           THEN [tag |-> "compl",
                                                 line |-> Line(M0.l),
                                                 len |-> M0.l.len,
                                                 pos |-> M0.l.pos]
                                           ELSE M0.snap
                                      ELSE IF X.op = "escape"
                                      THEN [M0.snap EXCEPT !.tag = "esc"]
                                      ELSE IF X.op \in {"prev", "next"}
                                              /\ X.completed = FALSE
                                      THEN IF M0.snap.tag = "nav"
                                           THEN M0.snap
                                           ELSE IF M0.l.history_index = 0
                                           THEN [tag |-> "nav",
                                                 line |-> Line(M0.l),
                                                 len |-> M0.l.len,
                                                 pos |-> M0.l.pos]
                                           ELSE NoSnap
                                      ELSE NoSnap]
    IN IF c = ReadErr THEN [M0 EXCEPT !.rv = NULL, !.op = "readfail",
                                      !.snap = NoSnap,
                                      !.l.out = << >>, !.l.nwrites = 0]
       ELSE IF (M.l.in_completion # 0 \/ c = TAB)
               /\ completionCallback # NoCallback
       THEN LET s1 == IF M.l.in_completion = 0
                      THEN [M.l EXCEPT !.completion_str = strdup(M.l),
                                       !.ub = @ \/ strlen(M.l) = M.l.bufsize]
                      ELSE M.l
                r == completeLine(s1, c)
                M1 == [M EXCEPT !.l = r.l, !.completed = TRUE]
            IN IF r.c = 0
               THEN exit([M1 EXCEPT !.rv = linenoiseEditMore,
                                    !.op = IF c = TAB THEN "tab"
                                           ELSE "escape"])
               ELSE exit(keySwitch(M1, r.c, inp))
       ELSE exit(keySwitch(M, c, inp))

\* the number of read() calls linenoiseEditFeed makes on these results
Reads(s, inp) ==
    LET c == ReadAt(inp, 1)
        inCompl == (s.in_completion # 0 \/ c = TAB)
                   /\ completionCallback # NoCallback
    IN IF c # ESC \/ (inCompl /\ Len(completionCallback) # 0) THEN 1
       ELSE IF ReadAt(inp, 2) = ReadErr THEN 2
       ELSE IF ReadAt(inp, 3) = ReadErr THEN 3
       ELSE IF ReadAt(inp, 2) = 91 /\ ReadAt(inp, 3) \in 48..57 THEN 4
       ELSE 3

----------------------------------------------------------------------------
(* State machine *)

\* bookkeeping of the run, no part of the program's state:
\*   ncalls     history API calls made so far
\*   nsessions  sessions started so far
\*   reg        the running session's start registered a placeholder entry
\*   len1       history_len when the running session's start returned
\*   ret        what the last logged history API call returned
\*   line       the line of the last logged linenoiseHistoryAdd
\*   pre        the entries before the last logged linenoiseHistoryAdd
\*   log        the lines of the logged adds, in order
\*   resized    linenoiseHistorySetMaxLen was called after a logged add
\*   cfg        the terminal configuration when the last successful start
\*              on a terminal was entered
\*   arg        the argument of the last logged linenoiseHistorySetMaxLen
\*   before     the entries when the last logged linenoiseEditStart was
\*              called
\* no successful start on a terminal yet, or the last start was none
NoCfg == {"none"}

GhostInit ==
    [ncalls |-> 0, nsessions |-> 0, reg |-> FALSE, len1 |-> 0, ret |-> 0,
     line |-> << >>, pre |-> << >>, log |-> << >>, resized |-> FALSE,
     cfg |-> NoCfg, arg |-> 0, before |-> << >>]

\* the lines the caller adds to the history before a session: "", "a", "ab"
HistLines == { << >>, << 97 >>, << 97, 98 >> }

\* the lines of SpecHist: all texts of at most two characters
Lines ==
    { << >> } \cup { << c >> : c \in Chars }
              \cup { << c, d >> : c \in Chars, d \in Chars }

\* what the caller's array may hold when a session starts
StaleBytes == {0, 98}

\* a candidate longer than any buffer of the model
LongCand == [k \in 1..MaxCap + 1 |-> 97]

\* the completion providers: one that finds nothing and providers with
\* fixed candidate lists
Providers ==
    { << >>, << << 98 >>, << 97, 98 >> >>, << LongCand >> }

HRec ==
    [history |-> history, history_len |-> history_len,
     history_max_len |-> history_max_len, ret |-> 0]

MRec ==
    [l |-> l, H |-> HRec, rv |-> rv, errno |-> errno, op |-> op,
     snap |-> snap, completed |-> FALSE]

TRec ==
    [rawmode |-> rawmode, orig_termios |-> orig_termios,
     termios |-> termios, errno |-> errno, ret |-> 0]

SetDev(T) ==
    /\ rawmode' = T.rawmode
    /\ orig_termios' = T.orig_termios
    /\ termios' = T.termios

Init ==
    /\ l = NoSession
    /\ phase = "NotStarted"
    /\ history = << >>
    /\ history_len = 0
    /\ history_max_len = LINENOISE_DEFAULT_HISTORY_MAX_LEN
    /\ maskmode = 0
    /\ completionCallback = NoCallback
    /\ hintsCallback = NoHints
    /\ freeHintsCallback = NoFree
    /\ rawmode = 0
    /\ orig_termios = {}
    /\ termios = Cooked
    /\ term = BlankTerm
    /\ rv = NULL
    /\ errno = 0
    /\ op = "none"
    /\ snap = NoSnap
    /\ gh = GhostInit

SetStore(H) ==
    /\ history' = H.history
    /\ history_len' = H.history_len
    /\ history_max_len' = H.history_max_len

linenoiseMaskModeEnable ==
    /\ phase = "NotStarted" /\ gh.nsessions = 0 /\ maskmode = 0
    /\ maskmode' = 1
    /\ UNCHANGED << l, phase, history, history_len, history_max_len,
                    completionCallback, hintsCallback,
                    freeHintsCallback, devVars,
                    term, rv, errno, op, snap, gh >>

linenoiseMaskModeDisable ==
    /\ phase = "NotStarted" /\ gh.nsessions = 0 /\ maskmode = 1
    /\ maskmode' = 0
    /\ UNCHANGED << l, phase, history, history_len, history_max_len,
                    completionCallback, hintsCallback,
                    freeHintsCallback, devVars,
                    term, rv, errno, op, snap, gh >>

linenoiseSetCompletionCallback(fn) ==
    /\ phase = "NotStarted" /\ gh.nsessions = 0 /\ gh.ncalls = 0
    /\ completionCallback = NoCallback
    /\ completionCallback' = fn
    /\ UNCHANGED << l, phase, history, history_len, history_max_len,
                    maskmode, hintsCallback, freeHintsCallback, devVars,
                    term, rv, errno, op, snap, gh >>

linenoiseSetHintsCallback(fn) ==
    /\ phase = "NotStarted" /\ gh.nsessions = 0 /\ gh.ncalls = 0
    /\ hintsCallback = NoHints
    /\ hintsCallback' = fn
    /\ UNCHANGED << l, phase, history, history_len, history_max_len,
                    maskmode, completionCallback, freeHintsCallback,
                    devVars, term, rv, errno, op, snap, gh >>

\* the release callback is registered before the first session
linenoiseSetFreeHintsCallback(fn) ==
    /\ phase = "NotStarted" /\ gh.nsessions = 0 /\ gh.ncalls = 0
    /\ freeHintsCallback = NoFree
    /\ freeHintsCallback' = fn
    /\ UNCHANGED << l, phase, history, history_len, history_max_len,
                    maskmode, completionCallback, hintsCallback, devVars,
                    term, rv, errno, op, snap, gh >>

\* the caller adds a line between sessions (at most maxcalls history calls,
\* and only in runs that register no completion provider)
HistoryAdd(line, logged, maxcalls) ==
    /\ phase = "NotStarted" /\ ~l.ub
    /\ completionCallback = NoCallback
    /\ gh.ncalls < maxcalls
    /\ LET H == linenoiseHistoryAdd(HRec, line)
       IN /\ SetStore(H)
          /\ gh' = IF logged
                   THEN [gh EXCEPT !.ncalls = @ + 1, !.ret = H.ret,
                                   !.line = line, !.pre = history,
                                   !.log = Append(@, line)]
                   ELSE [gh EXCEPT !.ncalls = @ + 1]
    /\ op' = "add"
    /\ UNCHANGED << l, phase, maskmode, completionCallback, hintsCallback,
                    freeHintsCallback,
                    devVars, term, rv, errno, snap >>

HistorySetMaxLen(n, logged, maxcalls) ==
    /\ phase = "NotStarted" /\ ~l.ub
    /\ completionCallback = NoCallback
    /\ gh.ncalls < maxcalls
    /\ LET H == linenoiseHistorySetMaxLen(HRec, n)
       IN /\ SetStore(H)
          /\ gh' = IF logged
                   THEN [gh EXCEPT !.ncalls = @ + 1, !.ret = H.ret,
                                   !.pre = history, !.arg = n,
                                   !.resized = @ \/ gh.log # << >>]
                   ELSE [gh EXCEPT !.ncalls = @ + 1]
    /\ op' = "setmaxlen"
    /\ UNCHANGED << l, phase, maskmode, completionCallback, hintsCallback,
                    freeHintsCallback,
                    devVars, term, rv, errno, snap >>

\* linenoiseHistorySave, and linenoiseHistoryLoad of the file it wrote by
\* a program that starts with no entry and the same limit
SaveLoad ==
    /\ phase = "NotStarted" /\ ~l.ub
    /\ LET file == linenoiseHistorySave(HRec)
           fresh == [history |-> << >>, history_len |-> 0,
                     history_max_len |-> history_max_len, ret |-> 0]
           H == linenoiseHistoryLoad(fresh, file)
       IN /\ SetStore(H)
          /\ gh' = [gh EXCEPT !.ret = H.ret, !.pre = history]
    /\ op' = "load"
    /\ UNCHANGED << l, phase, maskmode, completionCallback, hintsCallback,
                    freeHintsCallback,
                    devVars, term, rv, errno, snap >>

\* linenoiseEditStart is called while the caller is at one of phases (at
\* most maxs sessions in a run); getok and setok tell whether tcgetattr and
\* tcsetattr succeed; a logged start records the entries it found
StartLogged(cap, stale, tty, maxs, getok, setok, phases, logged) ==
    /\ phase \in phases /\ ~l.ub
    /\ gh.nsessions < maxs
    /\ LET r == linenoiseEditStart(l, HRec, TRec, cap, stale, tty,
                                   getok, setok)
       IN /\ l' = [r.l EXCEPT !.out = << >>, !.nwrites = 0]
          /\ term' = TermWrite(term, r.l.out)
          /\ SetStore(r.H)
          /\ SetDev(r.T)
          /\ errno' = r.T.errno
          /\ gh' = [gh EXCEPT !.nsessions = @ + 1,
                              !.reg = (tty /\ r.H.ret = 1),
                              !.len1 = r.H.history_len,
                              !.before = IF logged THEN history ELSE @,
                              !.cfg = IF tty /\ r.ret = 0 THEN termios
                                      ELSE NoCfg]
          /\ phase' = IF r.ret = 0 THEN "Active" ELSE "Failed"
    /\ rv' = NULL
    /\ op' = "start"
    /\ snap' = NoSnap
    /\ UNCHANGED << maskmode, completionCallback, hintsCallback,
                    freeHintsCallback >>

StartAt(cap, stale, tty, maxs, getok, setok, phases) ==
    StartLogged(cap, stale, tty, maxs, getok, setok, phases, FALSE)

\* linenoiseBlockingEdit up to its call of linenoiseEditStart
BlockingStart(cap, stale, tty, maxs) ==
    IF cap = 0
    THEN /\ phase = "NotStarted" /\ ~l.ub
         /\ gh.nsessions < maxs
         /\ errno' = EINVAL
         /\ rv' = NULL
         /\ op' = "einval"
         /\ UNCHANGED << l, phase, history, history_len, history_max_len,
                         maskmode, completionCallback, hintsCallback,
                         freeHintsCallback,
                         devVars, term, snap, gh >>
    ELSE StartAt(cap, stale, tty, maxs, TRUE, TRUE, {"NotStarted"})

\* a session starts between sessions, on a device that accepts the calls
Start(cap, stale, tty, maxs) ==
    StartAt(cap, stale, tty, maxs, TRUE, TRUE, {"NotStarted"})

Feed(inp) ==
    /\ phase = "Active" /\ ~l.ub
    /\ Len(inp) = Reads(l, inp)
    /\ LET R == linenoiseEditFeed(MRec, inp)
       \* nwrites stays: the write() calls this feed made
       IN /\ l' = [R.l EXCEPT !.out = << >>]
          /\ term' = TermWrite([term EXCEPT !.bells = 0], R.l.out)
          /\ SetStore(R.H)
          /\ rv' = R.rv
          /\ errno' = R.errno
          /\ op' = R.op
          /\ snap' = R.snap
          \* linenoiseBlockingEdit calls handleHints after a feed that
          \* returned linenoiseEditMore; without a provider it does nothing
          /\ phase' = IF R.rv # linenoiseEditMore THEN "Done"
                      ELSE IF hintsCallback # NoHints THEN "Hints"
                      ELSE "Active"
    /\ UNCHANGED << maskmode, completionCallback, hintsCallback,
                    freeHintsCallback, devVars,
                    gh >>

\* handleHints, as linenoiseBlockingEdit calls it between two feeds
HandleHints ==
    /\ phase = "Hints" /\ ~l.ub
    /\ l.unreleased < MaxUnreleased
    /\ LET s == handleHints([l EXCEPT !.out = << >>, !.nwrites = 0])
       IN /\ l' = [s EXCEPT !.out = << >>, !.nwrites = 0]
          /\ term' = TermWrite([term EXCEPT !.bells = 0], s.out)
    /\ phase' = "Active"
    /\ op' = "hints"
    /\ UNCHANGED << history, history_len, history_max_len, maskmode,
                    completionCallback, hintsCallback,
                    freeHintsCallback, devVars,
                    rv, errno, snap, gh >>

\* linenoiseEditStop is called while the caller is at one of phases, after
\* a start; clearHint appends to the append buffer, which nothing flushes
StopAt(setok, phases) ==
    /\ phase \in phases /\ ~l.ub
    /\ gh.nsessions >= 1
    /\ l' = clearHint(l)
    /\ SetDev(IF l.tty THEN disableRawMode(TRec, setok) ELSE TRec)
    /\ term' = IF l.tty THEN TermNewline(term) ELSE term
    /\ phase' = "NotStarted"
    /\ op' = "stop"
    /\ snap' = NoSnap
    /\ UNCHANGED << history, history_len, history_max_len, maskmode,
                    completionCallback, hintsCallback,
                    freeHintsCallback, rv, errno, gh >>

\* linenoiseEditStop after the feed that ended the session
Stop == StopAt(TRUE, {"Done"})

\* what a user types and what read() can deliver for it
TextKeys == { << c >> : c \in Chars }
EditKeys ==
    { << BACKSPACE >>, << CTRL_H >>, << CTRL_D >>, << ESC, 91, 51, 126 >> }
MoveKeys ==
    { << CTRL_B >>, << CTRL_F >>, << CTRL_A >>, << CTRL_E >>,
      << ESC, 91, 67 >>, << ESC, 91, 68 >>, << ESC, 91, 72 >>,
      << ESC, 91, 70 >>, << ESC, 79, 72 >>, << ESC, 79, 70 >> }
NavKeys ==
    { << CTRL_P >>, << CTRL_N >>, << ESC, 91, 65 >>, << ESC, 91, 66 >> }
EndKeys == { << ENTER >>, << CTRL_C >> }
OtherKeys ==
    { << CTRL_T >>, << CTRL_U >>, << CTRL_K >>, << CTRL_R >>, << TAB >>,
      << ESC >>, << ESC, 91, 53, 126 >>, << ESC, 91, 90 >>,
      << ESC, 120, 121 >>,
      << ReadErr >>, << ESC, ReadErr >>, << ESC, 91, ReadErr >>,
      << ESC, 91, 51, ReadErr >> }
AllKeys ==
    TextKeys \cup EditKeys \cup MoveKeys \cup NavKeys \cup EndKeys
             \cup OtherKeys

Stales(cap) == [1..cap - 1 -> StaleBytes]
\* an array the caller has cleared
Zeroed(cap) == [i \in 1..cap - 1 |-> 0]

----------------------------------------------------------------------------
(* Spec: the whole library on one session - a completion provider or none, *)
(* a history the caller has filled, a terminal or an input that is none,   *)
(* and every key; the user types the one character 'a' as text and the     *)
(* caller's array is cleared.                                              *)

SpecKeys == AllKeys \ { << 98 >> }

Next ==
    \/ \E fn \in Providers : linenoiseSetCompletionCallback(fn)
    \/ \E line \in HistLines : HistoryAdd(line, FALSE, MaxPreCalls)
    \/ \E n \in 0..MaxHistLen : HistorySetMaxLen(n, FALSE, MaxPreCalls)
    \/ \E cap \in 1..MaxCap, tty \in BOOLEAN :
          Start(cap, Zeroed(cap), tty, 1)
    \/ \E inp \in SpecKeys : Feed(inp)
    \/ Stop

Spec == Init /\ [][Next]_vars

(* SpecEdit: one session on a terminal and the keys that insert, delete    *)
(* and move the cursor.                                                    *)

NextEdit ==
    \/ \E cap \in 1..MaxCapEdit :
          \E stale \in Stales(cap) : Start(cap, stale, TRUE, 1)
    \/ \E inp \in TextKeys \cup EditKeys \cup MoveKeys : Feed(inp)

SpecEdit == Init /\ [][NextEdit]_vars

(* SpecHist: the history API alone, every call logged.                     *)

NextHist ==
    \/ \E line \in Lines : HistoryAdd(line, TRUE, MaxCalls)
    \/ \E n \in -1..MaxHistLen : HistorySetMaxLen(n, TRUE, MaxCalls)

SpecHist == Init /\ [][NextHist]_vars

(* SpecHints: the blocking loop with a hint provider - one session on a    *)
(* terminal, handleHints after every feed that asks for more input.        *)

HintKeys ==
    { << 97 >>, << BACKSPACE >>, << CTRL_D >>, << CTRL_B >>, << CTRL_F >>,
      << CTRL_A >>, << CTRL_P >>, << ENTER >>, << CTRL_C >> }

NextHints ==
    \/ \E fn \in HintProviders : linenoiseSetHintsCallback(fn)
    \/ HistoryAdd(<< 97 >>, FALSE, MaxPreCalls)
    \/ \E cap \in 1..MaxCapHints : Start(cap, Zeroed(cap), TRUE, 1)
    \/ \E inp \in HintKeys : Feed(inp)
    \/ HandleHints
    \/ Stop

SpecHints == Init /\ [][NextHints]_vars

(* SpecFree: SpecHints for a program that may also register a release      *)
(* callback for the strings of its hint provider.                          *)

ReleaseCallbacks == {"free"}

NextFree ==
    \/ \E fn \in HintProviders : linenoiseSetHintsCallback(fn)
    \/ \E fn \in ReleaseCallbacks : linenoiseSetFreeHintsCallback(fn)
    \/ \E cap \in 1..MaxCapHints : Start(cap, Zeroed(cap), TRUE, 1)
    \/ \E inp \in HintKeys : Feed(inp)
    \/ HandleHints
    \/ Stop

SpecFree == Init /\ [][NextFree]_vars

(* SpecFrame: the caller fills the history, then one session on a terminal *)
(* in which no history-navigation key is pressed.                          *)

FrameKeys == { << 97 >>, << BACKSPACE >>, << CTRL_B >>, << ENTER >> }

NextFrame ==
    \/ \E line \in HistLines : HistoryAdd(line, FALSE, MaxCalls)
    \/ \E n \in 1..MaxHistLen : HistorySetMaxLen(n, FALSE, MaxCalls)
    \/ \E cap \in 1..MaxCap :
          StartLogged(cap, Zeroed(cap), TRUE, 1, TRUE, TRUE, {"NotStarted"},
                      TRUE)
    \/ \E inp \in FrameKeys : Feed(inp)
    \/ Stop

SpecFrame == Init /\ [][NextFrame]_vars

(* SpecMask: SpecEdit with mask mode switched on or off before the         *)
(* session, and Enter.                                                     *)

NextMask ==
    \/ linenoiseMaskModeEnable
    \/ linenoiseMaskModeDisable
    \/ \E cap \in 1..MaxCapEdit : Start(cap, Zeroed(cap), TRUE, 1)
    \/ \E inp \in TextKeys \cup EditKeys \cup MoveKeys \cup { << ENTER >> } :
          Feed(inp)

SpecMask == Init /\ [][NextMask]_vars

(* SpecTerm: sessions on a device whose configuration calls can fail; the  *)
(* caller stops a session at any point and may stop again.  SpecRestart:   *)
(* the caller may also start again without having stopped.                 *)

TermKeys == { << 97 >>, << ENTER >>, << CTRL_C >> }

NextTerm ==
    \/ \E cap \in 1..MaxCap :
          \E tty \in BOOLEAN, getok \in BOOLEAN, setok \in BOOLEAN :
             StartAt(cap, Zeroed(cap), tty, MaxSessions, getok, setok,
                     {"NotStarted"})
    \/ \E inp \in TermKeys : Feed(inp)
    \/ \E setok \in BOOLEAN :
          StopAt(setok, {"Active", "Done", "Failed", "NotStarted"})

SpecTerm == Init /\ [][NextTerm]_vars

NextRestart ==
    \/ \E cap \in 1..MaxCap :
          \E tty \in BOOLEAN, getok \in BOOLEAN, setok \in BOOLEAN :
             StartAt(cap, Zeroed(cap), tty, MaxSessions, getok, setok,
                     {"NotStarted", "Active", "Done", "Failed"})
    \/ \E inp \in TermKeys : Feed(inp)
    \/ \E setok \in BOOLEAN :
          StopAt(setok, {"Active", "Done", "Failed", "NotStarted"})

SpecRestart == Init /\ [][NextRestart]_vars

(* SpecCtl: one session on a terminal with text, the control keys that    *)
(* redraw, and escape sequences of keys the library does not map.          *)

CtlKeys ==
    TextKeys \cup
    { << CTRL_L >>, << CTRL_R >>, << CTRL_B >>, << BACKSPACE >>,
      << ENTER >>,
      << ESC, 120, 121 >>, << ESC, 120, ReadErr >>, << ESC, ReadErr >>,
      << ESC, 91, 90 >>, << ESC, 79, 80 >>, << ESC, 91, ReadErr >>,
      << ESC, 91, 53, 126 >>, << ESC, 91, 53, ReadErr >> }

NextCtl ==
    \/ \E cap \in 1..MaxCap + 1 : Start(cap, Zeroed(cap), TRUE, 1)
    \/ \E inp \in CtlKeys : Feed(inp)

SpecCtl == Init /\ [][NextCtl]_vars

(* SpecFile: the history API with lines that may hold a newline, and the   *)
(* history file.                                                           *)

FileLines ==
    LET B == {97, NewLine}
    IN { << >> } \cup { << c >> : c \in B }
                 \cup { << c, d >> : c \in B, d \in B }

NextFile ==
    \/ \E line \in FileLines : HistoryAdd(line, TRUE, MaxCalls)
    \/ \E n \in 1..MaxHistLen : HistorySetMaxLen(n, TRUE, MaxCalls)
    \/ SaveLoad

SpecFile == Init /\ [][NextFile]_vars

(* SpecZero: sessions started through either API on an array that may be   *)
(* of no bytes at all.                                                     *)

NextZero ==
    \/ \E cap \in 0..MaxCap, tty \in BOOLEAN :
          Start(cap, Zeroed(cap), tty, MaxSessions)
    \/ \E cap \in 0..MaxCap, tty \in BOOLEAN :
          BlockingStart(cap, Zeroed(cap), tty, MaxSessions)
    \/ \E inp \in TextKeys \cup TermKeys : Feed(inp)
    \/ Stop

SpecZero == Init /\ [][NextZero]_vars

----------------------------------------------------------------------------
(* Properties *)

\* the line with the byte at the cursor removed
DeleteAt(line, pos) ==
    IF pos < Len(line)
    THEN [k \in 1..Len(line) - 1 |->
             IF k <= pos THEN line[k] ELSE line[k + 1]]
    ELSE line

NoAdjacentEqual ==
    \A i \in 1..Len(history) - 1 : history[i] # history[i + 1]

PairwiseDistinct(q) ==
    \A i \in 1..Len(q) : \A j \in 1..Len(q) : i # j => q[i] # q[j]

\* C1: in a session of capacity N >= 1, after every insert, backspace and
\* delete-forward (and every cursor move) 0 <= cursor <= length < N.
C1_CursorWithinLength ==
    phase # "NotStarted" =>
        /\ l.bufsize >= 1
        /\ 0 <= l.pos /\ l.pos <= l.len /\ l.len < l.bufsize

\* an insert arrived at a full buffer of the largest capacity and was refused
C1_Witness ==
    /\ phase = "Active" /\ op = "insert"
    /\ l.bufsize = MaxCapEdit /\ l.len = l.bufsize - 1
    /\ snap.tag = "ins" /\ snap.len = l.len

\* C2: while a session is active 0 <= cursor <= length <= capacity - 1 and
\* the first terminator of the buffer is at index length.
C2_BufferInvariant ==
    (phase # "NotStarted" /\ ~l.ub) =>
        /\ 0 <= l.pos /\ l.pos <= l.len /\ l.len <= l.bufsize - 1
        /\ strlen(l) = l.len

\* C3: with masking off, after every operation the terminal shows the prompt
\* followed by the buffer, and its cursor is at column plen + pos.
C3_DisplayMatchesBuffer ==
    (phase # "NotStarted" /\ l.tty /\ maskmode = 0 /\ ~l.ub) =>
        /\ TermShows(term, Prompt \o Line(l))
        /\ term.col = l.plen + l.pos

\* C4 as stated: an insert followed at once by a backspace restores content,
\* length and cursor, whatever the length was.
C4_InsertBackspaceAlways ==
    snap.tag = "insbs" =>
        /\ Line(l) = snap.line /\ l.len = snap.len /\ l.pos = snap.pos

\* C4: an insert at a length below capacity - 1, followed at once by a
\* backspace, restores the buffer content, the length and the cursor.
C4_InsertBackspaceRestores ==
    (snap.tag = "insbs" /\ snap.len < l.buflen) =>
        /\ Line(l) = snap.line /\ l.len = snap.len /\ l.pos = snap.pos
        /\ strlen(l) = l.len

\* an insert in the middle of a line was undone by the backspace after it
C4_Witness ==
    /\ snap.tag = "insbs" /\ op = "backspace"
    /\ snap.len < l.buflen
    /\ 0 < snap.pos /\ snap.pos < snap.len

\* C5 as stated: no two adjacent history entries are ever equal.
C5_NoAdjacentEqualAlways == NoAdjacentEqual

\* C5: every step that is not a history navigation (an add, a resize, a
\* session start, any other key, a session end) keeps the history free of
\* equal adjacent entries.
C5_NoAdjacentEqualKept ==
    [][(NoAdjacentEqual /\ op' \notin {"prev", "next"})
          => NoAdjacentEqual']_vars

\* a session ended by Ctrl-C left its placeholder behind a line added before
C5_Witness ==
    /\ op = "stop" /\ phase = "NotStarted"
    /\ history_len = 2 /\ NoAdjacentEqual

\* C6: when max_len + 1 pairwise distinct lines are added to an empty store
\* whose limit is not changed meanwhile, the store holds max_len entries:
\* the lines added, in order, without the first.
C6_EvictsOldest ==
    (/\ ~gh.resized
     /\ Len(gh.log) = history_max_len + 1
     /\ PairwiseDistinct(gh.log)) =>
        /\ history_len = history_max_len
        /\ history = Tail(gh.log)
        /\ gh.ret = 1

\* the store of limit MaxHistLen took one line more than it holds
C6_Witness ==
    /\ op = "add" /\ ~gh.resized
    /\ history_max_len = MaxHistLen
    /\ Len(gh.log) = MaxHistLen + 1
    /\ PairwiseDistinct(gh.log)

\* C7: adding a line equal to the newest entry returns 0 and leaves the
\* store as it was.
C7_DuplicateRejected ==
    (/\ op = "add"
     /\ gh.pre # << >>
     /\ gh.pre[Len(gh.pre)] = gh.line) =>
        /\ gh.ret = 0
        /\ history = gh.pre
        /\ history_len = Len(gh.pre)

\* the newest of two entries was added again
C7_Witness ==
    /\ op = "add" /\ gh.ret = 0
    /\ Len(gh.pre) >= 2
    /\ gh.pre[Len(gh.pre)] = gh.line
    /\ history_max_len > 0

\* C8: a session whose start registered a placeholder leaves the history
\* shorter by that entry when it ends by Enter, Ctrl-C or Ctrl-D on an
\* empty buffer.
C8_PlaceholderRemoved ==
    (phase = "Done" /\ gh.reg /\ op \in {"enter", "ctrl_c", "eof"}) =>
        /\ history_len = gh.len1 - 1
        /\ Len(history) = history_len

\* C9: Ctrl-C ends the feed with no line and errno EAGAIN, which is not the
\* end-of-input errno.
C9_CtrlCInterrupts ==
    op = "ctrl_c" =>
        /\ phase = "Done"
        /\ rv = NULL
        /\ errno = EAGAIN
        /\ errno # ENOENT

\* Ctrl-C arrived with a non-empty buffer
C9_Witness ==
    /\ op = "ctrl_c" /\ l.len > 0 /\ strlen(l) > 0

\* C10: Ctrl-D on an empty buffer ends the feed with no line and errno
\* ENOENT; on a non-empty buffer it deletes the byte at the cursor, if there
\* is one, and the feed returns linenoiseEditMore.
C10_CtrlDEndsIffEmpty ==
    (snap.tag = "ctrl_d" /\ ~l.ub) =>
        IF snap.len = 0
        THEN /\ op = "eof" /\ phase = "Done"
             /\ rv = NULL /\ errno = ENOENT
        ELSE /\ op = "ctrl_d" /\ phase = "Active"
             /\ rv = linenoiseEditMore
             /\ l.pos = snap.pos
             /\ Line(l) = DeleteAt(snap.line, snap.pos)

\* Ctrl-D arrived with the cursor at the end of a non-empty buffer
C10_Witness ==
    /\ snap.tag = "ctrl_d" /\ ~l.ub
    /\ snap.len > 0 /\ snap.pos = snap.len
    /\ op = "ctrl_d"

\* C11: with N >= 1 candidates, the Tab pressed while the last candidate is
\* shown leads to the state with no candidate selected and rings the bell.
C11_TabAfterLastRingsBell ==
    [][(/\ op' = "tab"
        /\ completionCallback # NoCallback
        /\ l.in_completion = 1
        /\ l.completion_idx = Len(completionCallback) - 1)
          => (/\ l'.completion_idx = Len(completionCallback)
              /\ term'.bells >= 1)]_vars

\* C12: Escape during a completion restores the content and the length the
\* buffer had when the first Tab was pressed, and leaves completion mode.
C12_EscapeRestores ==
    (snap.tag = "esc" /\ ~l.ub) =>
        /\ l.in_completion = 0
        /\ Line(l) = snap.line
        /\ l.len = snap.len

\* C13: a key other than Tab and Escape that arrives while candidate i (one
\* that fits the buffer) is shown makes the buffer candidate i, ends the
\* completion and is then processed once: Enter returns candidate i, a
\* character is inserted after it when there is room.
C13_OtherKeyCommits ==
    [][(/\ op' \in {"enter", "insert"}
        /\ completionCallback # NoCallback
        /\ l.in_completion = 1
        /\ l.completion_idx < Len(completionCallback)
        /\ Len(completionCallback[l.completion_idx + 1]) <= l.bufsize - 1
        /\ l.tty /\ ~l'.ub)
          => LET cand == completionCallback[l.completion_idx + 1]
             IN /\ l'.in_completion = 0
                /\ op' = "enter" => rv' = cand
                /\ op' = "insert" =>
                      IF Len(cand) < l.buflen
                      THEN \E c \in Chars : Line(l') = Append(cand, c)
                      ELSE Line(l') = cand]_vars

\* C14: Tab with a provider that returns no candidate rings the bell once,
\* leaves the session out of completion mode with buffer, length and cursor
\* unchanged, and the feed returns linenoiseEditMore.
C14_NoCandidatesBeep ==
    [][(op' = "tab" /\ completionCallback = << >>)
          => (/\ term'.bells = 1
              /\ l'.in_completion = 0
              /\ l'.buf = l.buf /\ l'.len = l.len /\ l'.pos = l.pos
              /\ rv' = linenoiseEditMore
              /\ phase' = "Active")]_vars

\* Tab found no candidate for a non-empty line
C14_Witness ==
    /\ op = "tab" /\ completionCallback = << >>
    /\ l.len > 0 /\ term.bells = 1 /\ l.in_completion = 0

\* C15: showing, replacing or erasing a hint changes neither the buffer,
\* nor the length, nor the cursor; Enter pressed while a hint is shown
\* returns the line as typed, and neither the returned line nor a history
\* entry holds a byte of hint text.
C15_HintsLeaveBuffer ==
    [][/\ op' = "hints" =>
            l'.buf = l.buf /\ l'.len = l.len /\ l'.pos = l.pos
       /\ (op' = "enter" /\ l.showing_hint # NULL) =>
            /\ rv' = Line(l)
            /\ \A k \in 1..Len(rv') : rv'[k] # HintChar
            /\ \A i \in 1..Len(history') :
                  \A k \in 1..Len(history'[i]) : history'[i][k] # HintChar
      ]_vars

C15_Witness ==
    /\ op = "enter" /\ l.showing_hint # NULL /\ l.len > 0 /\ rv = Line(l)
    /\ history_len > 0

\* C16: whenever a shown hint is erased because the provider has no
\* suggestion any more, the terminal afterwards shows the prompt and the
\* edited line and nothing else, with its cursor at len(prompt) + cursor.
C16_EraseLeavesLine ==
    [][(op' = "hints" /\ l.showing_hint # NULL /\ l'.showing_hint = NULL)
         => /\ TermShows(term', Prompt \o Line(l'))
            /\ term'.col = l'.plen + l'.pos
      ]_vars

\* C17: while mask mode is enabled, every byte of the buffer that an
\* editing operation writes to the terminal is the mask character: the
\* row shows, after the prompt, mask characters and blanks only.
C17_MaskHidesBytes ==
    (maskmode = 1 /\ phase # "NotStarted" /\ l.tty)
        => \A i \in Len(Prompt)..TermWidth - 1 :
              term.cells[i] \in {Space, MaskChar}

\* C18: enableRawMode entered while raw mode is already active (a second
\* linenoiseEditStart without a linenoiseEditStop) leaves the saved
\* configuration as it was.
C18_SavedOnce ==
    [][(op' = "start" /\ rawmode = 1) => orig_termios' = orig_termios]_vars

\* C19: linenoiseEditStop after a successful start on a terminal and any
\* feeds puts the terminal back to the configuration it had before that
\* start, provided the device accepts the call (rawmode is cleared then);
\* a stop that finds raw mode off, or a session that is not on a terminal,
\* or a device that refuses the call, changes nothing of the configuration.
C19_StopRestores ==
    [][op' = "stop" =>
         /\ (l.tty /\ gh.cfg # NoCfg /\ rawmode = 1 /\ rawmode' = 0)
               => termios' = gh.cfg
         /\ (~l.tty \/ rawmode = 0 \/ rawmode' = 1)
               => termios' = termios /\ rawmode' = rawmode
         /\ orig_termios' = orig_termios
      ]_vars

\* a session that went into raw mode and read a character has been
\* stopped, and stopped again (the row of the line has scrolled away): the
\* terminal is in the line mode it had
C19_Witness ==
    /\ op = "stop" /\ l.tty /\ gh.cfg = Cooked /\ rawmode = 0
    /\ termios = Cooked /\ orig_termios = Cooked
    /\ l.len > 0 /\ term.above = BlankRow

\* C20: once linenoiseEditStop has returned, the terminal shows no hint
\* text, neither in the row of the line nor in the row of the cursor.
C20_StopClearsHint ==
    (op = "stop" /\ l.tty)
        => \A i \in 0..TermWidth - 1 :
              term.above[i] # HintChar /\ term.cells[i] # HintChar

\* C21: a start on an array of capacity 0, through linenoiseEditStart or
\* through the blocking call, fails with EINVAL and touches neither the
\* caller's array, nor the terminal mode, nor the history.
C21_ZeroCapacityRejected ==
    [][(op' = "einval" \/ (op' = "start" /\ l'.bufsize = 0))
         => /\ errno' = EINVAL
            /\ phase' # "Active"
            /\ ~l'.ub
            /\ rawmode' = rawmode /\ termios' = termios
            /\ history' = history /\ history_len' = history_len
      ]_vars

\* C22: Ctrl-L is never inserted into the buffer: no byte of the caller's
\* array is 0x0C.
C22_CtrlLNotInserted ==
    \A i \in DOMAIN l.buf : l.buf[i] # CTRL_L

\* C28: a feed that reads an escape sequence mapping to no key (or whose
\* bytes cannot be read) leaves buffer, length and cursor as they were and
\* returns linenoiseEditMore with the session still running.
C28_UnknownEscapeAbsorbed ==
    [][op' = "ignored"
         => /\ l'.buf = l.buf /\ l'.len = l.len /\ l'.pos = l.pos
            /\ rv' = linenoiseEditMore
            /\ phase' = "Active"
      ]_vars

C28_Witness ==
    op = "ignored" /\ l.len > 0 /\ l.pos < l.len /\ rv = linenoiseEditMore

\* a navigation step that asks for an entry out of the range: Down at
\* index 0, Up at the oldest entry (the key is pressed with no completion
\* pending, which it would commit first)
OutOfRange ==
    /\ l.in_completion = 0
    /\ \/ op' = "next" /\ l.history_index = 0
       \/ op' = "prev" /\ l.history_index >= history_len - 1

C24_NavigationReturnsLive ==
    (op = "next" /\ snap.tag = "nav" /\ l.tty /\ history_len > 1
         /\ l.history_index = 0)
        => Line(l) = snap.line /\ l.len = snap.len

\* C25: linenoiseHistorySetMaxLen(n) with n < 1 returns 0 and leaves the
\* limit and the entries as they were; with n >= 1 it returns 1, the limit
\* is n and the store holds the newest min(history_len, n) entries in
\* their order.
C25_SetMaxLenKeepsNewest ==
    [][op' = "setmaxlen"
         => LET n == gh'.arg
                k == Min(history_len, n)
            IN IF n < 1
               THEN /\ gh'.ret = 0
                    /\ history' = history /\ history_len' = history_len
                    /\ history_max_len' = history_max_len
               ELSE /\ gh'.ret = 1
                    /\ history_max_len' = n
                    /\ history_len' = k
                    /\ history' = SubSeq(history, history_len - k + 1,
                                         history_len)
      ]_vars

\* a resize that dropped an old entry and kept more than one
C25_Witness ==
    /\ op = "setmaxlen" /\ gh.ret = 1 /\ Len(gh.pre) > history_len
    /\ history_len >= 2 /\ history = SubSeq(gh.pre, 2, Len(gh.pre))

FedLast ==
    /\ phase \in {"Active", "Done", "Hints"}
    /\ op \notin {"start", "hints", "readfail"}

\* C27: a feed makes at most one write to the output, and the append
\* buffer is empty when it returns.
C27_SingleFlush ==
    FedLast => l.nwrites <= 1 /\ l.ab = << >>

\* a Tab that put a candidate into the buffer: the cursor move and the
\* redraw went out in one write
C27_Witness ==
    FedLast /\ op = "tab" /\ l.in_completion = 1 /\ l.len > 0
        /\ l.nwrites = 1 /\ l.ab = << >>


\* C29: with a release callback registered, every string the hint provider
\* returned during a session has been passed to the callback by the time
\* linenoiseEditStop returns - none is left unreleased.
C29_AllReleased ==
    (op = "stop" /\ freeHintsCallback # NoFree) => l.unreleased = 0

\* C30: in every reachable state, on a terminal or not, the number of
\* history entries satisfies 0 <= history_len <= history_max_len.
C30_HistoryLenInRange ==
    0 <= history_len /\ history_len <= history_max_len

\* C31: on a terminal, with no history-navigation key pressed, the history
\* after the line is submitted with Enter holds exactly the entries, in the
\* same order, that it held when linenoiseEditStart was called.
C31_SubmitKeepsStore ==
    (op = "enter" /\ l.tty /\ phase = "Done") =>
        /\ history = gh.before
        /\ history_len = Len(gh.before)

\* the bytes that take the cursor from column from to column to: backspace
\* bytes to the left, one cursor-forward sequence to the right
MoveOutput(from, to) ==
    IF to < from THEN [k \in 1..from - to |-> 8]
    ELSE IF to > from THEN << 27, 91 >> \o FormatInt(to - from) \o << 67 >>
    ELSE << >>

\* the feed of inp is the step from the current state to the next one
FeedIs(inp) ==
    /\ Len(inp) = Reads(l, inp)
    /\ l' = [linenoiseEditFeed(MRec, inp).l EXCEPT !.out = << >>]

\* C32: a cursor-movement key (Ctrl-B/F/A/E or an arrow, Home or End
\* sequence) changes only the cursor, which stays within [0, length]; buffer
\* content, length and the history store are unchanged, and the only output
\* is backspace bytes (to the left) or one cursor-forward sequence (to the
\* right).
C32_MoveOnlyCursor ==
    [][(op' = "move" /\ l.in_completion = 0) =>
          /\ l'.buf = l.buf /\ l'.len = l.len
          /\ 0 <= l'.pos /\ l'.pos <= l'.len
          /\ history' = history /\ history_len' = history_len
          /\ \E inp \in MoveKeys : FeedIs(inp)
          /\ \A inp \in MoveKeys :
                FeedIs(inp) =>
                    linenoiseEditFeed(MRec, inp).l.out
                        = MoveOutput(l.pos, l'.pos)]_vars

C32_Witness ==
    op = "move" /\ phase = "Active" /\ l.len = 3 /\ l.pos = 1
        /\ l.in_completion = 0

====
